---- MODULE Spec2Model ----
(***************************************************************************)
(* Model of src/block.rs: the proof-of-work block representation.          *)
(*                                                                         *)
(*   set_difficulty   leading-zero-bit count -> 32-byte threshold          *)
(*   Content          ordered transaction container                        *)
(*   Header           hashed block metadata, mutable nonce                 *)
(*   Block            header + content + cached header hash                *)
(*                                                                         *)
(* Representation choices.                                                 *)
(*  - A byte is a number in 0..255, a [u8; 32] is a sequence of 32 bytes.  *)
(*  - TLC's integers are 32-bit signed, so a u32 or u128 does not fit one. *)
(*    A fixed-width unsigned integer is the big-endian sequence of its     *)
(*    16-bit limbs: a u32 is <<hi, lo>>, a u128 has 8 limbs.  Arithmetic   *)
(*    (overflowing_add) carries across limbs and drops the carry out of    *)
(*    the top limb, which is arithmetic modulo 2^32.                       *)
(*  - An H256 is a record [src, data].  src = "raw" is a value built from  *)
(*    a 32-byte array (data = the bytes).  src = "sha256" is the output of *)
(*    ring's SHA-256, kept symbolic: data = the exact byte string that was *)
(*    fed to the digest context.  Two digests are equal iff their inputs   *)
(*    are, and a digest never equals a raw value (SHA-256 idealised as     *)
(*    collision free).  src = "merkle" is the symbolic root the external   *)
(*    MerkleTree returns for a transaction sequence.                       *)
(*  - A Transaction is opaque: a small number.                             *)
(***************************************************************************)
EXTENDS Integers, Sequences, FiniteSets, TLC

VARIABLES
    op,         \* name of the operation executed last
    arg,        \* the input that operation was called with
    ret,        \* the value it returned (NoValue for a unit return)
    dif_val,    \* set_difficulty: the argument of the last call
    difficulty, \* set_difficulty: the array it returned
    cnt,        \* set_difficulty: the loop counter when it returned
    trans,      \* the caller's Vec<Transaction> (test_content_new_with_trans)
    content,    \* a Content value
    header,     \* a Header value
    header0,    \* the header as Header::new returned it
    calls,      \* change_nonce calls made since construction
    block,      \* a Block value
    built       \* the constructor used and the block as it returned it

vars == <<op, arg, ret, dif_val, difficulty, cnt, trans, content,
          header, header0, calls, block, built>>

----------------------------------------------------------------------------
(* Bounds of the model. *)

\* set_difficulty is called with every dif_val in 0..MaxDifVal
MaxDifVal == 262
\* longest transaction sequence built
MaxTrans == 3
\* number of distinct transactions
NumTrans == 2
\* change_nonce calls per constructed header or block
MaxCalls == 3

----------------------------------------------------------------------------
(* Bytes, arrays, fixed-width integers. *)

U8_MAX == 255

\* 2^16: one limb of a fixed-width unsigned integer
LimbBase == 65536

\* [x; n]
Repeat(x, n) == [i \in 1..n |-> x]

\* [0; 32]
ZeroArray == Repeat(0, 32)

\* faulty variant: u8 << 1
Shl1(b) == (b * 2) % 256

\* u8 >> 1
Shr1(b) == b \div 2

\* the integer v (< 2^32) as w big-endian 16-bit limbs
Limbs(w, lo) == Repeat(0, w - 1) \o <<lo>>

\* x.overflowing_add(1) on a limb sequence: <<wrapped sum, overflowed>>
RECURSIVE overflowing_add_1(_)
overflowing_add_1(x) ==
    IF x = <<>> THEN <<<<>>, TRUE>>
    ELSE LET n    == Len(x)
             last == x[n]
             rest == SubSeq(x, 1, n - 1)
         IN  IF last + 1 < LimbBase
                THEN <<rest \o <<last + 1>>, FALSE>>
                ELSE LET up == overflowing_add_1(rest)
                     IN  <<up[1] \o <<0>>, up[2]>>

\* faulty variant: x.to_le_bytes()
RECURSIVE to_le_bytes(_)
to_le_bytes(x) ==
    IF x = <<>> THEN <<>>
    ELSE to_le_bytes(Tail(x)) \o <<x[1] % 256, x[1] \div 256>>

\* x.to_be_bytes(): most significant byte first
RECURSIVE to_be_bytes(_)
to_be_bytes(x) ==
    IF x = <<>> THEN <<>>
    ELSE <<x[1] \div 256, x[1] % 256>> \o to_be_bytes(Tail(x))

----------------------------------------------------------------------------
(* H256 and the external hash primitives. *)

NoValue == [src |-> "none", data |-> <<>>]

\* [u8; 32].into()
FromArray(a) == [src |-> "raw", data |-> a]

\* H256::as_ref(): the 32 raw bytes
AsRef(h) == h.data

\* digest::Context::new(&digest::SHA256)
ContextNew == <<>>

\* ctx.update(bytes)
Update(ctx, bytes) == ctx \o bytes

\* ctx.finish().into()
Finish(ctx) == [src |-> "sha256", data |-> ctx]

\* MerkleTree::new(&trans).root()
MerkleRootOf(ts) == [src |-> "merkle", data |-> ts]

----------------------------------------------------------------------------
(* set_difficulty *)

\* static DIFFICULTY: usize = 12
DIFFICULTY == 12

\* for _j in 0..8 { if cnt < dif_val { difficulty[i] >>= 1 }; cnt += 1 }
\* (cnt is unsigned, so st.cnt < 0 is never true: reading st in the loop tests
\* only makes TLC evaluate the loop state before it recurses, which keeps its
\* evaluation stack shallow)
RECURSIVE InnerLoop(_, _, _, _)
InnerLoop(st, i, j, d) ==
    IF j = 8 \/ st.cnt < 0 THEN st
    ELSE InnerLoop(
            [difficulty |-> IF st.cnt < d
                               THEN [st.difficulty EXCEPT ![i + 1] = Shr1(@)]
                               ELSE st.difficulty,
             cnt        |-> st.cnt + 1],
            i, j + 1, d)

\* for i in 0..32 { ... }
RECURSIVE OuterLoop(_, _, _)
OuterLoop(st, i, d) ==
    IF i = 32 \/ st.cnt < 0 THEN st
    ELSE OuterLoop(InnerLoop(st, i, 0, d), i + 1, d)

\* faulty variant: the test written cnt <= dif_val
set_difficulty_run_off_by_one(d) ==
    OuterLoop([difficulty |-> Repeat(U8_MAX, 32), cnt |-> 0], 0, d + 1)

\* faulty variant: dif_val truncated to a u8 before the loop
set_difficulty_run_truncated(d) ==
    OuterLoop([difficulty |-> Repeat(U8_MAX, 32), cnt |-> 0], 0, d % 256)

\* the whole body: the returned array and the final value of cnt
set_difficulty_run(d) ==
    OuterLoop([difficulty |-> Repeat(U8_MAX, 32), cnt |-> 0], 0, d)

set_difficulty(d) == set_difficulty_run(d).difficulty

----------------------------------------------------------------------------
(* Content *)

\* Content::new()
Content_new == [trans |-> <<>>]

\* Content::new_with_trans(&trans): trans.clone()
Content_new_with_trans(ts) == [trans |-> ts]

\* faulty variant: self.trans.insert(0, tran)
Content_add_tran_front(c, tran) == [c EXCEPT !.trans = <<tran>> \o @]

\* self.trans.push(tran)
Content_add_tran(c, tran) == [c EXCEPT !.trans = Append(@, tran)]

\* Content::merkle_root(&self)
Content_merkle_root(c) == MerkleRootOf(c.trans)

----------------------------------------------------------------------------
(* Header *)

\* Header::new(parent, nonce, timestamp, difficulty, merkle_root)
Header_new(parent, nonce, timestamp, dif, merkle_root) ==
    [parent      |-> parent,
     nonce       |-> nonce,
     difficulty  |-> dif,
     timestamp   |-> timestamp,
     merkle_root |-> merkle_root]

\* Header::hash(&self)
Header_hash(h) ==
    LET ctx0 == ContextNew
        ctx1 == Update(ctx0, AsRef(h.parent))
        ctx2 == Update(ctx1, to_be_bytes(h.nonce))
        ctx3 == Update(ctx2, AsRef(h.difficulty))
        ctx4 == Update(ctx3, to_be_bytes(h.timestamp))
        ctx5 == Update(ctx4, AsRef(h.merkle_root))
    IN  Finish(ctx5)

\* faulty variant: self.nonce = self.nonce.saturating_add(1)
Header_change_nonce_saturating(h) ==
    IF overflowing_add_1(h.nonce)[2]
       THEN h
       ELSE [h EXCEPT !.nonce = overflowing_add_1(@)[1]]

\* Header::change_nonce(&mut self)
Header_change_nonce(h) == [h EXCEPT !.nonce = overflowing_add_1(@)[1]]

----------------------------------------------------------------------------
(* Block *)

\* faulty variant: genesis built like any other block, hash computed from its header
Block_genesis_hashed ==
    LET hdr == [parent      |-> FromArray(ZeroArray),
                nonce       |-> Limbs(2, 0),
                difficulty  |-> FromArray(set_difficulty(DIFFICULTY)),
                timestamp   |-> Limbs(8, 0),
                merkle_root |-> FromArray(ZeroArray)]
    IN  [hash    |-> Header_hash(hdr),
         index   |-> 0,
         header  |-> hdr,
         content |-> [trans |-> <<>>]]

\* Block::genesis()
Block_genesis ==
    LET h   == ZeroArray
        dif == set_difficulty(DIFFICULTY)
        hdr == [parent      |-> FromArray(h),
                nonce       |-> Limbs(2, 0),
                difficulty  |-> FromArray(dif),
                timestamp   |-> Limbs(8, 0),
                merkle_root |-> FromArray(h)]
        con == [trans |-> <<>>]
    IN  [hash    |-> FromArray(h),
         index   |-> 0,
         header  |-> hdr,
         content |-> con]

\* faulty variant: the hash initialised as in genesis
Block_new_zero_hash(hdr, con) ==
    [hash    |-> FromArray(ZeroArray),
     index   |-> 0,
     header  |-> hdr,
     content |-> con]

\* faulty variant: the header hashed with its nonce reset
Block_new_hash_without_nonce(hdr, con) ==
    [hash    |-> Header_hash([hdr EXCEPT !.nonce = Limbs(2, 0)]),
     index   |-> 0,
     header  |-> hdr,
     content |-> con]

\* Block::new(header, content)
Block_new(hdr, con) ==
    [hash    |-> Header_hash(hdr),
     index   |-> 0,
     header  |-> hdr,
     content |-> con]

\* faulty variant: the hash recomputed from the header on every call
Block_get_hash_recomputed(b) == Header_hash(b.header)

\* Block::get_hash(&self)
Block_get_hash(b) == b.hash

\* impl Hashable for Block: hash(&self)
Block_hash(b) == b.hash

----------------------------------------------------------------------------
(* Inputs the operations are called with. *)

Transactions == 1..NumTrans

\* every transaction sequence of length at most n
RECURSIVE SeqsUpTo(_)
SeqsUpTo(n) ==
    IF n = 0 THEN {<<>>}
    ELSE LET shorter == SeqsUpTo(n - 1)
         IN  shorter \cup {Append(s, t) : s \in shorter, t \in Transactions}

\* 32 distinct bytes from+1 .. from+32
Ramp(from) == [i \in 1..32 |-> from + i]

ParentInputs == {FromArray(ZeroArray), FromArray(Ramp(0))}

MerkleInputs == {FromArray(ZeroArray), FromArray(Ramp(200))}

DifficultyInputs == {FromArray(Repeat(U8_MAX, 32)), FromArray(Ramp(100))}

\* 0, 0x01020304, 0x0001FFFF, u32::MAX - 1, u32::MAX
NonceInputs ==
    {<<0, 0>>, <<258, 772>>, <<1, 65535>>, <<65535, 65534>>, <<65535, 65535>>}

\* 0 and 0x4142..50 (16 distinct bytes 65..80)
TimestampInputs ==
    {Limbs(8, 0), [k \in 1..8 |-> 256 * (63 + 2 * k) + (64 + 2 * k)]}

HeaderInputs ==
    {Header_new(p, n, t, d, m) :
        p \in ParentInputs, n \in NonceInputs, t \in TimestampInputs,
        d \in DifficultyInputs, m \in MerkleInputs}

\* the headers blocks are built from: every nonce and parent, the other
\* fields at their non-zero choice
BlockHeaderInputs ==
    {h \in HeaderInputs :
        /\ h.timestamp # Limbs(8, 0)
        /\ h.difficulty = FromArray(Ramp(100))
        /\ h.merkle_root = FromArray(Ramp(200))}

ContentInputs == {Content_new_with_trans(s) : s \in SeqsUpTo(1)}

----------------------------------------------------------------------------
(* Initial state: nothing has been called yet; the values at hand are the  *)
(* empty content and the genesis block with its header.                    *)

InitValues ==
    /\ op = "init"
    /\ arg = NoValue
    /\ ret = NoValue
    /\ difficulty = <<>>
    /\ cnt = 0
    /\ trans = <<>>
    /\ content = Content_new
    /\ header = Block_genesis.header
    /\ header0 = Block_genesis.header
    /\ calls = 0
    /\ block = Block_genesis
    /\ built = [by |-> "genesis", block |-> Block_genesis]

Init == InitValues /\ dif_val = 0

difficultyVars == <<dif_val, difficulty, cnt>>
contentVars    == <<trans, content>>
headerVars     == <<header, header0, calls>>
blockVars      == <<block, built>>

----------------------------------------------------------------------------
(* set_difficulty as a program step. *)

\* usize::MAX does not fit TLC's integers; the largest dif_val tried
HugeDifVal == 2147483647

DifVals == 0..MaxDifVal \cup {HugeDifVal}

\* the caller has picked the argument; the function has not run yet
InitDifficulty == InitValues /\ dif_val \in DifVals

CallSetDifficulty ==
    /\ op = "init"
    /\ op' = "set_difficulty"
    /\ arg' = NoValue
    /\ ret' = NoValue
    /\ LET run == set_difficulty_run(dif_val)
       IN  /\ difficulty' = run.difficulty
           /\ cnt' = run.cnt
    /\ UNCHANGED <<dif_val, contentVars, headerVars, blockVars>>

NextDifficulty == CallSetDifficulty

SpecDifficulty == InitDifficulty /\ [][NextDifficulty]_vars

----------------------------------------------------------------------------
(* Content operations, and the caller's own vector. *)

\* trans.push(generate_random_transaction()) on the caller's vector
CallerPush(t) ==
    /\ Len(trans) < MaxTrans
    /\ op' = "trans.push"
    /\ arg' = t
    /\ ret' = NoValue
    /\ trans' = Append(trans, t)
    /\ UNCHANGED <<content, difficultyVars, headerVars, blockVars>>

CallContentNew ==
    /\ op' = "Content::new"
    /\ arg' = NoValue
    /\ ret' = NoValue
    /\ content' = Content_new
    /\ UNCHANGED <<trans, difficultyVars, headerVars, blockVars>>

CallNewWithTrans ==
    /\ op' = "Content::new_with_trans"
    /\ arg' = trans
    /\ ret' = NoValue
    /\ content' = Content_new_with_trans(trans)
    /\ UNCHANGED <<trans, difficultyVars, headerVars, blockVars>>

CallAddTran(t) ==
    /\ Len(content.trans) < MaxTrans
    /\ op' = "Content::add_tran"
    /\ arg' = t
    /\ ret' = NoValue
    /\ content' = Content_add_tran(content, t)
    /\ UNCHANGED <<trans, difficultyVars, headerVars, blockVars>>

CallMerkleRoot ==
    /\ op' = "Content::merkle_root"
    /\ arg' = NoValue
    /\ ret' = Content_merkle_root(content)
    /\ UNCHANGED <<contentVars, difficultyVars, headerVars, blockVars>>

NextContent ==
    \/ \E t \in Transactions : CallerPush(t)
    \/ CallContentNew
    \/ CallNewWithTrans
    \/ \E t \in Transactions : CallAddTran(t)
    \/ CallMerkleRoot

SpecContent == Init /\ [][NextContent]_vars

----------------------------------------------------------------------------
(* Header operations. *)

CallHeaderNew(p, n, t, d, m) ==
    /\ op' = "Header::new"
    /\ arg' = NoValue
    /\ ret' = NoValue
    /\ header' = Header_new(p, n, t, d, m)
    /\ header0' = header'
    /\ calls' = 0
    /\ UNCHANGED <<difficultyVars, contentVars, blockVars>>

CallHeaderHash ==
    /\ op' = "Header::hash"
    /\ arg' = NoValue
    /\ ret' = Header_hash(header)
    /\ UNCHANGED <<headerVars, difficultyVars, contentVars, blockVars>>

CallChangeNonce ==
    /\ calls < MaxCalls
    /\ op' = "Header::change_nonce"
    /\ arg' = NoValue
    /\ ret' = NoValue
    /\ header' = Header_change_nonce(header)
    /\ calls' = calls + 1
    /\ UNCHANGED <<header0, difficultyVars, contentVars, blockVars>>

NextHeader ==
    \/ \E p \in ParentInputs, n \in NonceInputs, t \in TimestampInputs,
          d \in DifficultyInputs, m \in MerkleInputs :
            CallHeaderNew(p, n, t, d, m)
    \/ CallHeaderHash
    \/ CallChangeNonce

SpecHeader == Init /\ [][NextHeader]_vars

----------------------------------------------------------------------------
(* Block operations, and the writes its public header field allows. *)

CallGenesis ==
    /\ op' = "Block::genesis"
    /\ arg' = NoValue
    /\ ret' = NoValue
    /\ block' = Block_genesis
    /\ built' = [by |-> "genesis", block |-> block']
    /\ calls' = 0
    /\ UNCHANGED <<header, header0, difficultyVars, contentVars>>

CallBlockNew(h, c) ==
    /\ op' = "Block::new"
    /\ arg' = [header |-> h, content |-> c]
    /\ ret' = NoValue
    /\ block' = Block_new(h, c)
    /\ built' = [by |-> "new", block |-> block']
    /\ calls' = 0
    /\ UNCHANGED <<header, header0, difficultyVars, contentVars>>

CallGetHash ==
    /\ op' = "Block::get_hash"
    /\ arg' = NoValue
    /\ ret' = Block_get_hash(block)
    /\ UNCHANGED <<blockVars, headerVars, difficultyVars, contentVars>>

CallBlockHash ==
    /\ op' = "Block::hash"
    /\ arg' = NoValue
    /\ ret' = Block_hash(block)
    /\ UNCHANGED <<blockVars, headerVars, difficultyVars, contentVars>>

\* block.header.change_nonce()
CallBlockChangeNonce ==
    /\ calls < MaxCalls
    /\ op' = "block.header.change_nonce"
    /\ arg' = NoValue
    /\ ret' = NoValue
    /\ block' = [block EXCEPT !.header = Header_change_nonce(@)]
    /\ calls' = calls + 1
    /\ UNCHANGED <<built, header, header0, difficultyVars, contentVars>>

\* block.header.nonce = n
WriteBlockNonce(n) ==
    /\ op' = "block.header.nonce ="
    /\ arg' = n
    /\ ret' = NoValue
    /\ block' = [block EXCEPT !.header.nonce = n]
    /\ UNCHANGED <<built, headerVars, difficultyVars, contentVars>>

Next ==
    \/ CallGenesis
    \/ \E h \in BlockHeaderInputs, c \in ContentInputs : CallBlockNew(h, c)
    \/ CallGetHash
    \/ CallBlockHash
    \/ CallBlockChangeNonce
    \/ \E n \in NonceInputs : WriteBlockNonce(n)

Spec == Init /\ [][Next]_vars

----------------------------------------------------------------------------
(* Properties of set_difficulty, checked under SpecDifficulty.             *)

\* bit k of a 32-byte big-endian number, k = 0 the most significant bit
BitOf(a, k) == (a[(k \div 8) + 1] \div (2 ^ (7 - (k % 8)))) % 2

Clamp(x, lo, hi) == IF x < lo THEN lo ELSE IF x > hi THEN hi ELSE x

Returned == op = "set_difficulty"

\* C1: for 0 <= d <= 255, set_difficulty(d) is 32 bytes whose big-endian
\* value is 2^(256 - d) - 1: the top d bits are zero and every other bit is
\* one; set_difficulty(0) is 32 bytes of 0xFF.
C1_ThresholdBits ==
    (Returned /\ dif_val <= 255) =>
        /\ Len(difficulty) = 32
        /\ \A i \in 1..32 : difficulty[i] \in 0..255
        /\ \A k \in 0..255 : BitOf(difficulty, k) = IF k < dif_val THEN 0 ELSE 1
        /\ dif_val = 0 => \A i \in 1..32 : difficulty[i] = 255

C1_Witness ==
    /\ Returned
    /\ dif_val = 255
    /\ difficulty[32] = 1
    /\ difficulty[31] = 0

\* C2: for 0 <= d <= 255, byte i of the loop's result equals the closed
\* form 0xFF >> clamp(d - 8*i, 0, 8), a shift by 8 giving 0.
C2_ClosedForm ==
    (Returned /\ dif_val <= 255) =>
        \A i \in 0..31 :
            difficulty[i + 1] = 255 \div (2 ^ Clamp(dif_val - 8 * i, 0, 8))

C2_Witness ==
    /\ Returned
    /\ dif_val = 21
    /\ difficulty[1] = 0
    /\ difficulty[2] = 0
    /\ difficulty[3] = 7
    /\ difficulty[4] = 255

\* C10: for every d >= 256 set_difficulty returns 32 zero bytes, its
\* counter having gone from 0 to exactly 256; there is no range check.
C10_OutOfRange ==
    (Returned /\ dif_val >= 256) =>
        /\ cnt = 256
        /\ Len(difficulty) = 32
        /\ \A i \in 1..32 : difficulty[i] = 0

C10_Witness ==
    /\ Returned
    /\ dif_val = HugeDifVal
    /\ cnt = 256
    /\ difficulty[32] = 0

----------------------------------------------------------------------------
(* Properties of Content, checked under SpecContent.                       *)

\* C9: Content::new() is empty; new_with_trans(S) holds a copy equal to S
\* and leaves S alone; a later push on the caller's S does not change the
\* content; add_tran(t) appends t after the unchanged earlier elements;
\* merkle_root() does not modify the sequence.
C9_OrderedSequence ==
    [][ /\ op' = "Content::new" => content'.trans = <<>>
        /\ op' = "Content::new_with_trans" =>
              /\ content'.trans = trans
              /\ trans' = trans
        /\ op' = "trans.push" =>
              /\ content' = content
              /\ trans' # trans
        /\ op' = "Content::add_tran" =>
              /\ Len(content'.trans) = Len(content.trans) + 1
              /\ SubSeq(content'.trans, 1, Len(content.trans)) = content.trans
              /\ content'.trans[Len(content'.trans)] = arg'
        /\ op' = "Content::merkle_root" =>
              /\ content' = content
              /\ ret' = MerkleRootOf(content.trans)
      ]_vars

C9_Witness ==
    /\ op = "Content::add_tran"
    /\ content.trans = <<1, 2, 1>>
    /\ trans = <<1, 2>>

----------------------------------------------------------------------------
(* Properties of Header, checked under SpecHeader.                         *)

\* (n + k) mod 2^32 on <<hi, lo>>, for a small k
AddU32(n, k) ==
    LET total == n[2] + k
    IN  <<(n[1] + (total \div 65536)) % 65536, total % 65536>>

\* C6: after k change_nonce calls on a header built with nonce n the nonce
\* is (n + k) mod 2^32 (u32::MAX wraps to 0), and parent, difficulty,
\* timestamp and merkle_root are as built.
C6_NonceWraps ==
    /\ header.nonce = AddU32(header0.nonce, calls)
    /\ header.parent = header0.parent
    /\ header.difficulty = header0.difficulty
    /\ header.timestamp = header0.timestamp
    /\ header.merkle_root = header0.merkle_root

C6_Witness ==
    /\ op = "Header::change_nonce"
    /\ header0.nonce = <<65535, 65535>>
    /\ calls = 1
    /\ header.nonce = <<0, 0>>

\* C7: Header::hash() digests exactly 116 bytes: parent (32), nonce as 4
\* big-endian bytes, difficulty (32), timestamp as 16 big-endian bytes,
\* merkle_root (32), in this order with nothing between; it leaves the header
\* as it was.
C7_HashLayout ==
    /\ [](op = "Header::hash" =>
            /\ ret.src = "sha256"
            /\ Len(ret.data) = 116
            /\ \A i \in 1..32 : ret.data[i] = header.parent.data[i]
            /\ \A k \in 1..2 :
                  /\ ret.data[32 + 2 * k - 1] = header.nonce[k] \div 256
                  /\ ret.data[32 + 2 * k] = header.nonce[k] % 256
            /\ \A i \in 1..32 : ret.data[36 + i] = header.difficulty.data[i]
            /\ \A k \in 1..8 :
                  /\ ret.data[68 + 2 * k - 1] = header.timestamp[k] \div 256
                  /\ ret.data[68 + 2 * k] = header.timestamp[k] % 256
            /\ \A i \in 1..32 : ret.data[84 + i] = header.merkle_root.data[i])
    /\ [][op' = "Header::hash" => header' = header]_vars

C7_Witness ==
    /\ op = "Header::hash"
    /\ header.nonce = <<258, 772>>
    /\ header.timestamp[1] # 0
    /\ header.parent.data[1] = 1
    /\ ret.data[33] = 1
    /\ ret.data[36] = 4
    /\ ret.data[69] = 65

----------------------------------------------------------------------------
(* Properties of Block, checked under Spec.                                *)

GenesisDifficulty == [i \in 1..32 |-> IF i = 1 THEN 0 ELSE IF i = 2 THEN 15 ELSE 255]

Zero32 == [i \in 1..32 |-> 0]

\* C3: Block::genesis() always returns the same block: index 0, hash 32
\* zero bytes, parent and merkle_root zero, nonce 0, timestamp 0, no
\* transactions, difficulty 0x00 0x0F then 0xFF thirty times.
C3_Genesis ==
    op = "Block::genesis" =>
        /\ block.index = 0
        /\ block.hash = [src |-> "raw", data |-> Zero32]
        /\ block.header.parent = [src |-> "raw", data |-> Zero32]
        /\ block.header.nonce = <<0, 0>>
        /\ block.header.timestamp = <<0, 0, 0, 0, 0, 0, 0, 0>>
        /\ block.header.merkle_root = [src |-> "raw", data |-> Zero32]
        /\ block.header.difficulty = [src |-> "raw", data |-> GenesisDifficulty]
        /\ block.content.trans = <<>>

C3_Witness ==
    /\ op = "Block::genesis"
    /\ block.header.difficulty.data[2] = 15
    /\ block.hash.data[1] = 0

\* C4: Block::new(h, c) returns a block with hash = h.hash(), index = 0,
\* header = h and content = c.
C4_BlockNew ==
    op = "Block::new" =>
        /\ block.hash = Header_hash(arg.header)
        /\ block.index = 0
        /\ block.header = arg.header
        /\ block.content = arg.content

C4_Witness ==
    /\ op = "Block::new"
    /\ arg.header.nonce = <<65535, 65535>>
    /\ arg.header.parent.data[1] = 1
    /\ arg.content.trans # <<>>

C8_CachedHash ==
    /\ [](op \in {"Block::get_hash", "Block::hash"} =>
            /\ ret = built.block.hash
            /\ built.by = "genesis" => ret = [src |-> "raw", data |-> Zero32]
            /\ built.by = "new" => ret = Header_hash(built.block.header))
    /\ [][op' \in {"Block::get_hash", "Block::hash"} => block' = block]_vars

C8_Witness ==
    /\ op = "Block::get_hash"
    /\ built.by = "new"
    /\ calls = 2
    /\ block.header.nonce # built.block.header.nonce
    /\ ret = built.block.hash

====
